---- MODULE Spec2Model ----
(***************************************************************************)
(* Conversation / tool orchestration of the terminal assistant:            *)
(* MainPage.startChatLoop, MessageHandler.processAIRequest,                *)
(* MessageHandler.handleToolCall, MessageHandler.askUserConfirmation,      *)
(* MainPage.cancelCurrentRequest and InterruptHandler, together with the   *)
(* streaming exchange (openAIService.streamChat) they drive, the context   *)
(* window of MessageHandler.buildChatMessages and TokenCalculator, and the *)
(* ToolPermissionSelector component.                                       *)
(***************************************************************************)
EXTENDS Integers, Sequences, FiniteSets, TLC

\* ------------------------------------------------------------------ bounds
MaxMsgs == 6        \* messages in the conversation
MaxBatch == 2       \* tool calls in one assistant message
MaxChunks == 2      \* content chunks of one exchange
MaxRetries == 1     \* transport retries of one exchange
MaxCapacity == 16   \* largest configured context size
MaxDispatch == 3    \* tool calls of a batch dispatched on its own
MaxFragments == 4   \* tool-call fragments of one stream

VARIABLES
    messages,          \* MainPage.messages
    chatState,         \* MainPage.chatState
    abortController,   \* MainPage.abortController: "null" or "live"
    aborted,           \* AbortSignal.aborted of the controller of this turn
    interruptHandler,  \* MainPage.interruptHandler and its fields
    stdin,             \* process.stdin: flowing flag and 'data' listeners
    pc,                \* where the chat loop's single control flow stands
    sessions,          \* every streamChat exchange started so far
    batch,             \* result.assistantResponse.tool_calls being handled
    idx,               \* position of the for-loop over the batch (1-based)
    toolLog,           \* what happened to the calls of the batch so far
    confirmationConfig,\* the stored McpFunctionConfirmationConfig
    selector,          \* a ToolPermissionSelector and the response it gave
    toolCallStream,    \* tool-call fragments of one stream, as accumulated
    toolOutputVisible, \* TOOL_OUTPUT_VISIBLE of message-handler.ts
    currentTask,       \* CheckpointService: whether a current task is set
    loading,           \* processAIRequest's isLoading and the animations running
    inputHistory       \* the InputHistory object

vars == <<messages, chatState, abortController, aborted, interruptHandler,
          stdin, pc, sessions, batch, idx, toolLog, confirmationConfig,
          selector, toolCallStream, toolOutputVisible, currentTask, loading,
          inputHistory>>

\* ------------------------------------------------------------ data model
\* What the model may answer for a requested call: a tool that runs without
\* confirmation, one that needs confirmation, a name no service provides,
\* and arguments that are no JSON.
CallKinds == {"plain", "confirm", "unknown", "badargs"}

\* The tool-call lists an assistant message may carry: call k has id k.
Batches == UNION {[1..n -> CallKinds] : n \in 1..MaxBatch}

Terminal == {"Completed", "Errored", "Cancelled"}

UserMsg == [type |-> "user", calls |-> <<>>, tcid |-> 0, kind |-> "text"]

AiMsg(calls) ==
    [type |-> "ai", calls |-> calls, tcid |-> 0, kind |-> "text"]

ToolMsg(id, kind) ==
    [type |-> "tool", calls |-> <<>>, tcid |-> id, kind |-> kind]

\* Mutant: the new message takes the place of the last one.
addMessageMut(msgs, m) ==
    IF msgs = <<>> THEN <<m>> ELSE [msgs EXCEPT ![Len(msgs)] = m]

\* callbacks.addMessage
addMessage(msgs, m) == Append(msgs, m)

\* No tool-call fragment has arrived.
NoStream == [arrived |-> <<>>, calls |-> <<>>, complete |-> FALSE]

NoHandler == [exists |-> FALSE, isActive |-> FALSE, escPressCount |-> 0,
              escTimer |-> FALSE]

\* Nothing invoked and nothing denied yet.
NoLog == [invoked |-> {}, denied |-> {}]

\* No ToolPermissionSelector is on screen.
NoSelector == [toolName |-> "none", selectedIndex |-> 0, responded |-> FALSE,
               approved |-> FALSE, createPolicy |-> FALSE,
               stopStream |-> FALSE]

\* StorageService.isFunctionConfirmationRequired
needsConfirmation(kind) == kind \in confirmationConfig

\* ------------------------------------------------- the context window
\* The system message: base prompt and TODO part.
SystemPreamble ==
    [type |-> "system", calls |-> <<>>, tcid |-> 0, kind |-> "result"]

\* Estimated token cost of a message: it grows with the text the message
\* carries (its tool-call records, the output of a tool that ran).
estimate(m) == 1 + Len(m.calls) + (IF m.kind = "result" THEN 1 ELSE 0)

RECURSIVE Cost(_)
Cost(ms) == IF ms = <<>> THEN 0 ELSE estimate(Head(ms)) + Cost(Tail(ms))

From(ms, i) == SubSeq(ms, i, Len(ms))

\* The configured context size (contextTokens).
Capacities == 0..MaxCapacity

\* The share of the context given to the history: the 0.7 handed to
\* selectHistoryMessages.
TargetPercent == 70

\* limit = (totalCapacity - reserved) * targetFraction
Limit(cap) == ((cap - estimate(SystemPreamble)) * TargetPercent) \div 100

\* The walk from the most recent message backward stops before the cost
\* exceeds the limit: the oldest position it takes in.
WalkStart(ms, limit) ==
    CHOOSE i \in 1..(Len(ms) + 1) :
        /\ Cost(From(ms, i)) <= limit
        /\ i > 1 => Cost(From(ms, i - 1)) > limit

\* A cut on a tool message lies inside a tool-call group: with "extend" the
\* cut moves back to the assistant message of the group, with "drop" the
\* orphaned tool messages are left out.
Policies == {"extend", "drop"}

GroupHeads(ms, i) ==
    {a \in 1..i : /\ ms[a].type = "ai"
                  /\ \A m \in (a + 1)..i : ms[m].type = "tool"}

GroupEnd(ms, i) ==
    CHOOSE j \in i..(Len(ms) + 1) :
        /\ \A m \in i..(j - 1) : ms[m].type = "tool"
        /\ j <= Len(ms) => ms[j].type # "tool"

PairStart(ms, i, p) ==
    IF i > Len(ms) \/ ms[i].type # "tool" THEN i
    ELSE IF p = "extend" /\ GroupHeads(ms, i) # {}
    THEN CHOOSE a \in GroupHeads(ms, i) : TRUE
    ELSE GroupEnd(ms, i)

\* Mutant: the selection starts wherever the cut fell.
TurnStartMut(ms, i) == i

\* Mutant: when not even the latest user turn fits, everything is selected.
TurnStartAllMut(ms, i) ==
    LET us == {u \in DOMAIN ms : u <= i /\ ms[u].type = "user"}
    IN  IF us = {} THEN Len(ms) + 1
        ELSE IF \A u \in DOMAIN ms : ms[u].type = "user" => u \in us
        THEN 1
        ELSE CHOOSE u \in us : \A v \in us : v <= u

\* The selection is extended backward until it starts with a user message:
\* the last user message at or before position i (none: nothing selected).
TurnStart(ms, i) ==
    LET us == {u \in DOMAIN ms : u <= i /\ ms[u].type = "user"}
    IN  IF us = {} THEN Len(ms) + 1
        ELSE CHOOSE u \in us : \A v \in us : v <= u

\* The latest user turn: from the last user message to the end.
LatestTurn(ms) == From(ms, TurnStart(ms, Len(ms)))

\* Steps 2 to 5 under a limit: the selection, the budget-exceeded flag,
\* and whether messages were left out, which a summary may then stand for.
Selection(ms, limit, p) ==
    LET start == TurnStart(ms, PairStart(ms, WalkStart(ms, limit), p))
    IN  [allowedMessages |-> From(ms, start),
         budgetExceeded |-> Cost(LatestTurn(ms)) > limit,
         warning |-> FALSE,
         summary |-> start > 1]

\* Mutant: a system message larger than the context size is treated as
\* a limit of nothing.
selectHistoryMessagesMut(ms, cap, p) ==
    Selection(ms, IF Limit(cap) < 0 THEN 0 ELSE Limit(cap), p)

\* TokenCalculator.selectHistoryMessages(allMessages, systemMessage, 0.7)
\* under context size cap.
selectHistoryMessages(ms, cap, p) ==
    IF estimate(SystemPreamble) > cap
    THEN [allowedMessages |-> <<>>, budgetExceeded |-> FALSE,
          warning |-> TRUE, summary |-> FALSE]
    ELSE Selection(ms, Limit(cap), p)

\* Mutant: one tool message is expected after an assistant message with
\* tool calls, however many calls it carries.
RECURSIVE ConvertOneMut(_, _)
ConvertOneMut(ms, expectedToolMessages) ==
    IF ms = <<>> THEN <<>>
    ELSE LET msg == Head(ms) IN
         IF msg.type = "user" THEN <<msg>> \o ConvertOneMut(Tail(ms), 0)
         ELSE IF msg.type = "ai"
         THEN <<msg>> \o ConvertOneMut(Tail(ms),
                                       IF msg.calls # <<>> THEN 1 ELSE 0)
         ELSE IF expectedToolMessages > 0
         THEN <<msg>> \o ConvertOneMut(Tail(ms), expectedToolMessages - 1)
         ELSE ConvertOneMut(Tail(ms), expectedToolMessages)

\* Step 6 of buildChatMessages: the selected history is converted message
\* by message; a tool message is kept only while the assistant message
\* before it still expects tool messages.
RECURSIVE Convert(_, _)
Convert(ms, expectedToolMessages) ==
    IF ms = <<>> THEN <<>>
    ELSE LET msg == Head(ms) IN
         IF msg.type = "user" THEN <<msg>> \o Convert(Tail(ms), 0)
         ELSE IF msg.type = "ai"
         THEN <<msg>> \o Convert(Tail(ms), Len(msg.calls))
         ELSE IF expectedToolMessages > 0
         THEN <<msg>> \o Convert(Tail(ms), expectedToolMessages - 1)
         ELSE Convert(Tail(ms), expectedToolMessages)

\* Mutant: the history is cut at the token limit and sent as it is.
buildChatMessagesMut(ms, cap, p) ==
    IF estimate(SystemPreamble) > cap THEN <<>>
    ELSE From(ms, WalkStart(ms, Limit(cap)))

\* MessageHandler.buildChatMessages: the history part of chatMessages (the
\* system message comes first); of tokenResult only allowedMessages (and
\* the summary text) is read.
buildChatMessages(ms, cap, p) ==
    LET tokenResult == selectHistoryMessages(ms, cap, p)
    IN  Convert(tokenResult.allowedMessages, 0)

\* ------------------------------------------------- the loading animation
\* isLoading is the flag of processAIRequest's closure; controller is
\* MainPage.loadingController holding a running animation; leaked is an
\* animation still running that no controller refers to any more.
NoLoading == [isLoading |-> FALSE, controller |-> FALSE, leaked |-> FALSE]

\* startLoading: showLoadingAnimation and onLoadingStart, which stores the
\* controller over the one it held.
startLoading(l) ==
    IF ~l.isLoading
    THEN [isLoading |-> TRUE, controller |-> TRUE,
          leaked |-> l.leaked \/ l.controller]
    ELSE l

\* Mutant: the flag is cleared and the animation is left running.
stopLoadingMut(l) == [l EXCEPT !.isLoading = FALSE]

\* stopLoading: onLoadingStop stops the stored controller and drops it.
stopLoading(l) ==
    IF l.isLoading
    THEN [l EXCEPT !.isLoading = FALSE, !.controller = FALSE]
    ELSE l

\* ---------------------------------------------------- the input history
\* The largest maxSize an InputHistory is constructed with.
MaxHistorySize == 3

\* The inputs typed: two commands and one of blanks only.
Inputs == {"ls", "cd", " "}

\* The values of an imported or stored JSON array: strings, and "#" for a
\* value that is no string.
JsonItems == {"ls", "cd", "#"}

\* The arrays storage or an import may hold, some longer than the limit.
JsonArrays == UNION {[1..n -> JsonItems] : n \in 0..(MaxHistorySize + 1)}

\* Array.prototype.slice(-n): the last n elements; slice(-0) is slice(0),
\* the whole array.
sliceLast(s, n) ==
    IF n = 0 \/ Len(s) <= n THEN s
    ELSE SubSeq(s, Len(s) - n + 1, Len(s))

\* Array.prototype.splice(index, 1), index counted from 0.
splice(s, index) ==
    [i \in 1..(Len(s) - 1) |-> IF i <= index THEN s[i] ELSE s[i + 1]]

\* The field initialisers, with the constructor's maxSize.
NoHistory ==
    [history |-> <<>>, currentIndex |-> -1, temporaryInput |-> "",
     maxHistorySize |-> MaxHistorySize]

\* InputHistory.reset
reset(h) == [h EXCEPT !.currentIndex = -1, !.temporaryInput = ""]

\* Mutant: the pushed command is kept without trimming the history.
addMut(h, input, force) ==
    IF input = " " THEN h
    ELSE IF ~force /\ Len(h.history) > 0
            /\ h.history[Len(h.history)] = input
    THEN h
    ELSE reset([h EXCEPT !.history = Append(h.history, input)])

\* InputHistory.add
add(h, input, force) ==
    IF input = " " THEN h
    ELSE IF ~force /\ Len(h.history) > 0
            /\ h.history[Len(h.history)] = input
    THEN h
    ELSE LET pushed == Append(h.history, input) IN
         reset([h EXCEPT !.history =
                   IF Len(pushed) > h.maxHistorySize
                   THEN sliceLast(pushed, h.maxHistorySize)
                   ELSE pushed])

\* InputHistory.previous
previous(h, currentInput) ==
    IF Len(h.history) = 0 THEN h
    ELSE IF h.currentIndex = -1
    THEN [h EXCEPT !.temporaryInput = currentInput,
                   !.currentIndex = Len(h.history) - 1]
    ELSE IF h.currentIndex > 0
    THEN [h EXCEPT !.currentIndex = @ - 1]
    ELSE h

\* InputHistory.next
next(h) ==
    IF h.currentIndex = -1 THEN h
    ELSE IF h.currentIndex + 1 >= Len(h.history) THEN reset(h)
    ELSE [h EXCEPT !.currentIndex = @ + 1]

\* InputHistory.clear
clear(h) == reset([h EXCEPT !.history = <<>>])

\* InputHistory.remove
remove(h, index) ==
    IF index < 0 \/ index >= Len(h.history) THEN h
    ELSE reset([h EXCEPT !.history = splice(h.history, index)])

\* filter(item => typeof item === 'string')
strings(s) ==
    LET keep == {i \in DOMAIN s : s[i] # "#"}
        RECURSIVE walk(_)
        walk(i) == IF i > Len(s) THEN <<>>
                   ELSE (IF i \in keep THEN <<s[i]>> ELSE <<>>) \o walk(i + 1)
    IN  walk(1)

\* InputHistory.import of a JSON array
import(h, imported) ==
    reset([h EXCEPT !.history = sliceLast(strings(imported),
                                          h.maxHistorySize)])

\* The constructor: maxSize, and loadFromStorage's stored array.
loadFromStorage(maxSize, stored) ==
    [history |-> sliceLast(stored, maxSize), currentIndex |-> -1,
     temporaryInput |-> "", maxHistorySize |-> maxSize]

\* ------------------------------------------------------------------ Init
Init ==
    /\ messages = <<>>
    /\ chatState = [canSendMessage |-> TRUE, isProcessing |-> FALSE]
    /\ abortController = "null"
    /\ aborted = FALSE
    /\ interruptHandler = NoHandler
    /\ stdin = [flowing |-> TRUE, listeners |-> {"input"}]
    /\ pc = "getUserInput"
    /\ sessions = <<>>
    /\ batch = <<>>
    /\ idx = 1
    /\ toolLog = NoLog
    /\ confirmationConfig = {"confirm"}
    /\ toolCallStream = NoStream
    /\ toolOutputVisible = FALSE
    /\ currentTask = FALSE
    /\ loading = NoLoading
    /\ inputHistory = NoHistory
    /\ selector = NoSelector

\* ------------------------------------------------ stdin and ESC handling
\* InterruptHandler.start: raw mode, resume, on('data', keyListener)
StartHandler ==
    [exists |-> TRUE, isActive |-> TRUE, escPressCount |-> 0,
     escTimer |-> FALSE]

\* InterruptHandler.stop: nothing when inactive; else the timer is cleared,
\* the listener removed and stdin left paused.
StopHandler(h) ==
    IF h.isActive
    THEN [h EXCEPT !.isActive = FALSE, !.escTimer = FALSE,
                   !.escPressCount = 0]
    ELSE h

\* Mutant: stop() leaves the keyListener on stdin.
StdinAfterStopMut(h, s) == s

\* What stop() leaves of stdin: the keyListener removed, stdin paused.
StdinAfterStop(h, s) ==
    IF h.isActive
    THEN [flowing |-> FALSE, listeners |-> s.listeners \ {"interrupt"}]
    ELSE s

\* A key reaches a listener only while stdin flows and the listener is on.
Hears(l) == stdin.flowing /\ l \in stdin.listeners

\* ------------------------------------------------------- the chat loop
\* Mutant: the input is read whenever the chat state says a message may be
\* sent, wherever the loop's control flow stands.
CanReadInputMut == chatState.canSendMessage

\* startChatLoop reads the next input only from its own control flow:
\* after `await processAIRequest()` has returned and canSendMessage holds.
CanReadInput == pc = "getUserInput" /\ chatState.canSendMessage

\* The signal processAIRequest hands to streamChat: the call passes
\* messages, tools and the callbacks, and no signal.
PassedSignal == "none"

NewSession(request) ==
    [state |-> "Idle", chunks |-> 0, retries |-> 0, signal |-> PassedSignal,
     nev |-> 0, status |-> "none", calls |-> <<>>, request |-> request]

\* Mutant: the processing state is set before the configuration is
\* checked, and the early return leaves it set.
SubmitUserTurnMut(valid) ==
    /\ CanReadInput
    /\ Len(messages) + 2 <= MaxMsgs
    /\ messages' = addMessage(messages, UserMsg)
    /\ aborted' = FALSE
    /\ sessions' = sessions
    /\ batch' = <<>>
    /\ idx' = 1
    /\ toolLog' = NoLog
    /\ currentTask' = TRUE
    /\ IF valid
       THEN /\ abortController' = "live"
            /\ interruptHandler' = StartHandler
            /\ stdin' = [flowing |-> TRUE, listeners |-> {"interrupt"}]
            /\ chatState' = [canSendMessage |-> FALSE, isProcessing |-> TRUE]
            /\ pc' = "buildChatMessages"
       ELSE /\ abortController' = "null"
            /\ interruptHandler' = NoHandler
            /\ stdin' = [flowing |-> TRUE, listeners |-> {"input"}]
            /\ chatState' = [canSendMessage |-> FALSE, isProcessing |-> TRUE]
            /\ pc' = "getUserInput"
    /\ UNCHANGED <<confirmationConfig, selector,
                   toolCallStream, toolOutputVisible>>
    /\ loading' = (IF valid THEN [loading EXCEPT !.isLoading = FALSE]
                   ELSE loading)
    /\ UNCHANGED inputHistory

\* getUserInput resolves with a normal message: its cleanup drops every
\* stdin listener and pauses stdin; addUserMessage; startAIRequest;
\* processAIRequest up to its first await.  With an invalid API
\* configuration processAIRequest returns before its try block and the
\* chat loop's finally runs at once.
SubmitUserTurn(valid) ==
    /\ CanReadInput
    /\ Len(messages) + 2 <= MaxMsgs
    /\ messages' = addMessage(messages, UserMsg)
    /\ aborted' = FALSE
    /\ sessions' = sessions
    /\ batch' = <<>>
    /\ idx' = 1
    /\ toolLog' = NoLog
    /\ currentTask' = TRUE
    /\ IF valid
       THEN /\ abortController' = "live"
            /\ interruptHandler' = StartHandler
            /\ stdin' = [flowing |-> TRUE, listeners |-> {"interrupt"}]
            /\ chatState' = [canSendMessage |-> FALSE, isProcessing |-> TRUE]
            /\ pc' = "buildChatMessages"
       ELSE /\ abortController' = "null"
            /\ interruptHandler' = NoHandler
            /\ stdin' = [flowing |-> TRUE, listeners |-> {"input"}]
            /\ chatState' = chatState
            /\ pc' = "getUserInput"
    /\ UNCHANGED <<confirmationConfig, selector,
                   toolCallStream, toolOutputVisible>>
    /\ loading' = (IF valid THEN [loading EXCEPT !.isLoading = FALSE]
                   ELSE loading)
    /\ UNCHANGED inputHistory

\* The chat commands that start no turn.
Commands == {"/clear", "/help"}

\* CommandManager.handleInput(userInput, this.messages): "/clear" clears
\* the chat history; the other commands return no newMessages.
handleInput(cmd, ms) ==
    IF cmd = "/clear"
    THEN [handled |-> TRUE, hasNewMessages |-> TRUE, newMessages |-> <<>>]
    ELSE [handled |-> cmd # "/help", hasNewMessages |-> FALSE,
          newMessages |-> ms]

\* startChatLoop on a command: `this.messages = commandResult.newMessages`
\* when the result carries a list, then the next getUserInput.
HandleCommand(cmd) ==
    /\ CanReadInput
    /\ LET commandResult == handleInput(cmd, messages)
       IN  messages' = IF commandResult.handled /\ commandResult.hasNewMessages
                       THEN commandResult.newMessages
                       ELSE messages
    /\ UNCHANGED <<chatState, abortController, aborted, interruptHandler,
                   stdin, pc, sessions, batch, idx>>
    /\ UNCHANGED <<toolLog, confirmationConfig, selector,
                   toolCallStream, toolOutputVisible, currentTask, loading,
                   inputHistory>>

\* Mutant: the selected window is written back over the conversation.
BuildChatMessagesMut ==
    /\ pc = "buildChatMessages"
    /\ \E cap \in Capacities, p \in Policies :
         /\ messages' = selectHistoryMessages(messages, cap, p).allowedMessages
         /\ sessions' = Append(sessions,
                               NewSession(buildChatMessages(messages, cap, p)))
    /\ pc' = "streamChat"
    /\ UNCHANGED <<chatState, abortController, aborted,
                   interruptHandler, stdin, batch, idx>>
    /\ UNCHANGED <<toolLog, confirmationConfig, selector,
                   toolCallStream, toolOutputVisible, currentTask>>
    /\ loading' = startLoading(loading)
    /\ UNCHANGED inputHistory

\* Mutant: the context is built over the conversation as it stood when the
\* turn began.
BuildChatMessagesOnceMut ==
    /\ pc = "buildChatMessages"
    /\ \E cap \in Capacities, p \in Policies :
         sessions' = Append(sessions,
             NewSession(buildChatMessages(
                 SubSeq(messages, 1, TurnStart(messages, Len(messages))),
                 cap, p)))
    /\ pc' = "streamChat"
    /\ UNCHANGED <<messages, chatState, abortController, aborted,
                   interruptHandler, stdin, batch, idx>>
    /\ UNCHANGED <<toolLog, confirmationConfig, selector,
                   toolCallStream, toolOutputVisible, currentTask>>
    /\ loading' = startLoading(loading)
    /\ UNCHANGED inputHistory

\* Top of the while loop: buildChatMessages, startLoading, and the call of
\* openAIService.streamChat, which creates the exchange.
BuildChatMessages ==
    /\ pc = "buildChatMessages"
    /\ \E cap \in Capacities, p \in Policies :
         sessions' = Append(sessions,
                            NewSession(buildChatMessages(messages, cap, p)))
    /\ pc' = "streamChat"
    /\ UNCHANGED <<messages, chatState, abortController, aborted,
                   interruptHandler, stdin, batch, idx>>
    /\ UNCHANGED <<toolLog, confirmationConfig, selector,
                   toolCallStream, toolOutputVisible, currentTask>>
    /\ loading' = startLoading(loading)
    /\ UNCHANGED inputHistory

\* ----------------------------------------------- the streaming exchange
\* options.signal?.aborted, read by the stream loop at each chunk
SignalAborted(s) == s.signal = "turn" /\ aborted

\* Mutant: an exchange goes on emitting after its terminal state.
LiveMut(s) == s.state # "Idle"

Live(s) == s.state \in {"Sending", "Streaming"}

\* A transport failure is retried MaxRetries times. The source has one
\* retry path for a stream that has not started and for one that has
\* delivered part of its content.
MayRetry(s) == Live(s) /\ s.retries < MaxRetries

Cancel(s) == [s EXCEPT !.state = "Cancelled", !.status = "cancelled"]

Ids(b) == [i \in 1..Len(b) |-> i]

\* start(): the request is issued.
SessSend(k) ==
    /\ k \in DOMAIN sessions
    /\ sessions[k].state = "Idle"
    /\ sessions' = [sessions EXCEPT ![k].state = "Sending"]
    /\ UNCHANGED <<messages, chatState, abortController, aborted,
                   interruptHandler, stdin, pc, batch, idx>>
    /\ UNCHANGED <<toolLog, confirmationConfig, selector,
                   toolCallStream, toolOutputVisible, currentTask, loading,
                   inputHistory>>

\* A content chunk arrives: the abort check, then onChunk.
SessChunk(k) ==
    /\ k \in DOMAIN sessions
    /\ Live(sessions[k])
    /\ sessions[k].chunks < MaxChunks
    /\ sessions' =
         [sessions EXCEPT ![k] =
            IF SignalAborted(@) THEN Cancel(@)
            ELSE [@ EXCEPT !.state = "Streaming", !.chunks = @ + 1,
                           !.nev = @ + 1]]
    /\ UNCHANGED <<messages, chatState, abortController, aborted,
                   interruptHandler, stdin, pc, batch, idx>>
    /\ UNCHANGED <<toolLog, confirmationConfig, selector,
                   toolCallStream, toolOutputVisible, currentTask>>
    /\ loading' = (IF SignalAborted(sessions[k]) THEN loading
                   ELSE startLoading(stopLoading(loading)))
    /\ UNCHANGED inputHistory

\* The transport fails: a retry, or onError and the terminal error.
SessFail(k) ==
    /\ k \in DOMAIN sessions
    /\ Live(sessions[k])
    /\ sessions' =
         [sessions EXCEPT ![k] =
            IF MayRetry(@) THEN [@ EXCEPT !.retries = @ + 1]
            ELSE [@ EXCEPT !.state = "Errored", !.status = "error",
                           !.nev = @ + 1]]
    /\ UNCHANGED <<messages, chatState, abortController, aborted,
                   interruptHandler, stdin, pc, batch, idx>>
    /\ UNCHANGED <<toolLog, confirmationConfig, selector,
                   toolCallStream, toolOutputVisible, currentTask>>
    /\ loading' = (IF MayRetry(sessions[k]) THEN loading
                   ELSE stopLoading(loading))
    /\ UNCHANGED inputHistory

\* The stream ends with content only: onComplete(fullResponse) appends the
\* assistant message.
SessCompleteContent(k) ==
    /\ k \in DOMAIN sessions
    /\ Live(sessions[k])
    /\ IF SignalAborted(sessions[k])
       THEN /\ sessions' = [sessions EXCEPT ![k] = Cancel(@)]
            /\ messages' = messages
       ELSE /\ sessions' = [sessions EXCEPT ![k].state = "Completed",
                                            ![k].status = "done",
                                            ![k].nev = @ + 1]
            /\ messages' = addMessage(messages, AiMsg(<<>>))
    /\ UNCHANGED <<chatState, abortController, aborted, interruptHandler,
                   stdin, pc, batch, idx>>
    /\ UNCHANGED <<toolLog, confirmationConfig, selector,
                   toolCallStream, toolOutputVisible, currentTask>>
    /\ loading' = (IF SignalAborted(sessions[k]) THEN loading
                   ELSE stopLoading(loading))
    /\ UNCHANGED inputHistory

\* Mutant: after onAssistantMessage has appended the message with the tool
\* calls, onComplete appends the same response once more.
SessCompleteToolCallsMut(k, b) ==
    /\ k \in DOMAIN sessions
    /\ Live(sessions[k])
    /\ Len(messages) + Len(b) + 2 <= MaxMsgs
    /\ IF SignalAborted(sessions[k])
       THEN /\ sessions' = [sessions EXCEPT ![k] = Cancel(@)]
            /\ messages' = messages
       ELSE /\ sessions' = [sessions EXCEPT ![k].state = "Completed",
                                            ![k].status = "tool_calls",
                                            ![k].calls = b,
                                            ![k].nev = @ + 1]
            /\ messages' = addMessage(addMessage(messages, AiMsg(Ids(b))),
                                      AiMsg(<<>>))
    /\ UNCHANGED <<chatState, abortController, aborted, interruptHandler,
                   stdin, pc, batch, idx>>
    /\ UNCHANGED <<toolLog, confirmationConfig, selector,
                   toolCallStream, toolOutputVisible, currentTask>>
    /\ loading' = (IF SignalAborted(sessions[k]) THEN loading
                   ELSE stopLoading(loading))
    /\ UNCHANGED inputHistory

\* The stream ends with tool calls: onAssistantMessage({content, toolCalls})
\* appends the assistant message carrying them.
SessCompleteToolCalls(k, b) ==
    /\ k \in DOMAIN sessions
    /\ Live(sessions[k])
    /\ Len(messages) + Len(b) + 2 <= MaxMsgs
    /\ IF SignalAborted(sessions[k])
       THEN /\ sessions' = [sessions EXCEPT ![k] = Cancel(@)]
            /\ messages' = messages
       ELSE /\ sessions' = [sessions EXCEPT ![k].state = "Completed",
                                            ![k].status = "tool_calls",
                                            ![k].calls = b,
                                            ![k].nev = @ + 1]
            /\ messages' = addMessage(messages, AiMsg(Ids(b)))
    /\ UNCHANGED <<chatState, abortController, aborted, interruptHandler,
                   stdin, pc, batch, idx>>
    /\ UNCHANGED <<toolLog, confirmationConfig, selector,
                   toolCallStream, toolOutputVisible, currentTask>>
    /\ loading' = (IF SignalAborted(sessions[k]) THEN loading
                   ELSE stopLoading(loading))
    /\ UNCHANGED inputHistory

\* Mutant: the call is taken to have settled as soon as the request is out.
ResolvedMut(s) == s.state # "Idle"

\* `await openAIService.streamChat(...)` settles when the exchange is over.
Resolved(s) == s.state \in Terminal

\* An exchange is transient: once its result has been handed to the loop
\* nothing refers to it any more.
Destroy(ss) ==
    IF ss[Len(ss)].state \in Terminal THEN SubSeq(ss, 1, Len(ss) - 1) ELSE ss

\* Mutant: the finally block drops the abort controller and leaves the
\* interrupt handler as it is.
ReturnToInputMut ==
    /\ chatState' = [canSendMessage |-> TRUE, isProcessing |-> FALSE]
    /\ abortController' = "null"
    /\ interruptHandler' = interruptHandler
    /\ stdin' = [flowing |-> TRUE, listeners |-> {"input"}]
    /\ pc' = "getUserInput"
    /\ currentTask' = FALSE

\* chat loop's finally after processAIRequest's own: chatState reset,
\* abortController dropped, interrupt handler stopped, next getUserInput.
ReturnToInput ==
    /\ chatState' = [canSendMessage |-> TRUE, isProcessing |-> FALSE]
    /\ abortController' = "null"
    /\ interruptHandler' = NoHandler
    /\ stdin' = [flowing |-> TRUE, listeners |-> {"input"}]
    /\ pc' = "getUserInput"
    /\ currentTask' = FALSE

\* Mutant: the while loop is left once the batch has been handled.
AfterCallMut(i) ==
    IF i > Len(batch) THEN "getUserInput" ELSE "handleToolCall"

\* After a batch, or a tool call of it, the for-loop goes on or the while
\* loop starts its next round.
AfterCall(i) == IF i > Len(batch) THEN "buildChatMessages" ELSE "handleToolCall"

\* Mutant: onError leaves continueConversation set, and the loop goes round
\* again after an error.
StreamReturnedMut ==
    /\ pc = "streamChat"
    /\ sessions # <<>>
    /\ LET s == sessions[Len(sessions)] IN
       /\ Resolved(s)
       /\ IF s.status \in {"tool_calls", "error"}
          THEN /\ batch' = s.calls
               /\ idx' = 1
               /\ pc' = IF s.calls = <<>> THEN "buildChatMessages"
                        ELSE "handleToolCall"
               /\ UNCHANGED <<chatState, abortController, interruptHandler,
                              stdin, currentTask>>
          ELSE /\ batch' = <<>>
               /\ idx' = 1
               /\ ReturnToInput
    /\ sessions' = Destroy(sessions)
    /\ toolLog' = NoLog
    /\ UNCHANGED <<messages, aborted>>
    /\ UNCHANGED <<confirmationConfig, selector,
                   toolCallStream, toolOutputVisible>>
    /\ loading' = (IF sessions[Len(sessions)].status = "tool_calls"
                   THEN stopLoading(loading) ELSE loading)
    /\ UNCHANGED inputHistory

\* The code after the await: tool calls are handled one by one, anything
\* else ends the loop.
StreamReturned ==
    /\ pc = "streamChat"
    /\ sessions # <<>>
    /\ LET s == sessions[Len(sessions)] IN
       /\ Resolved(s)
       /\ IF s.status = "tool_calls"
          THEN /\ batch' = s.calls
               /\ idx' = 1
               /\ pc' = IF s.calls = <<>> THEN "buildChatMessages"
                        ELSE "handleToolCall"
               /\ UNCHANGED <<chatState, abortController, interruptHandler,
                              stdin, currentTask>>
          ELSE /\ batch' = <<>>
               /\ idx' = 1
               /\ ReturnToInput
    /\ sessions' = Destroy(sessions)
    /\ toolLog' = NoLog
    /\ UNCHANGED <<messages, aborted>>
    /\ UNCHANGED <<confirmationConfig, selector,
                   toolCallStream, toolOutputVisible>>
    /\ loading' = (IF sessions[Len(sessions)].status = "tool_calls"
                   THEN stopLoading(loading) ELSE loading)
    /\ UNCHANGED inputHistory

\* ------------------------------------------------------ tool dispatch
\* Mutant: the batch is walked from its last call to its first.
CallAtMut(i) == Len(batch) + 1 - i

\* `for (const toolCall of toolCalls)`: the call handled at position i.
CallAt(i) == i

CallId == Ids(batch)[CallAt(idx)]

CallKind == batch[CallAt(idx)]

\* Mutant: a denied call returns without a tool message.
RejectedMut(msgs, id) == msgs

\* The three addMessage calls of handleToolCall.
Rejected(msgs, id) == addMessage(msgs, ToolMsg(id, "rejected"))

\* Mutant: the result is appended where the tool returns and once more on
\* the way out.
SucceededTwiceMut(msgs, id) ==
    addMessage(addMessage(msgs, ToolMsg(id, "result")), ToolMsg(id, "result"))

Succeeded(msgs, id) == addMessage(msgs, ToolMsg(id, "result"))

\* Mutant: the catch block reports the error and appends nothing.
FailedMut(msgs, id) == msgs

\* Mutant: the catch block appends an ordinary result.
FailedAsResultMut(msgs, id) == addMessage(msgs, ToolMsg(id, "result"))

Failed(msgs, id) == addMessage(msgs, ToolMsg(id, "error"))

\* handleToolCall up to its first await: JSON.parse of the arguments (a
\* failure lands in the catch block, which appends the error result), then
\* the confirmation prompt or the invocation.
ToolBegin ==
    /\ pc = "handleToolCall"
    /\ idx <= Len(batch)
    /\ IF CallKind = "badargs"
       THEN /\ messages' = Failed(messages, CallId)
            /\ idx' = idx + 1
            /\ pc' = AfterCall(idx + 1)
            /\ UNCHANGED <<stdin, toolLog>>
       ELSE IF needsConfirmation(CallKind)
       THEN /\ stdin' = [flowing |-> TRUE,
                         listeners |-> stdin.listeners \cup {"confirm"}]
            /\ pc' = "askUserConfirmation"
            /\ UNCHANGED <<messages, idx, toolLog>>
       ELSE /\ pc' = "executeMcpTool"
            /\ toolLog' = [toolLog EXCEPT !.invoked = @ \cup {CallId}]
            /\ UNCHANGED <<messages, idx, stdin>>
    /\ UNCHANGED <<chatState, abortController, aborted, interruptHandler,
                   sessions, batch>>
    /\ UNCHANGED <<confirmationConfig, selector,
                   toolCallStream, toolOutputVisible, currentTask, loading,
                   inputHistory>>

\* Mutant: the answer of the prompt is not looked at.
shouldExecuteMut(yes) == TRUE

\* `const shouldExecute = await this.askUserConfirmation(...)`:
\* y / Enter resolve true, n / Ctrl+C resolve false.
shouldExecute(yes) == yes

\* keyHandler of askUserConfirmation: y / Enter approve, n / Ctrl+C deny;
\* cleanup removes the handler and pauses stdin.
ConfirmKey(yes) ==
    /\ pc = "askUserConfirmation"
    /\ Hears("confirm")
    /\ stdin' = [flowing |-> FALSE, listeners |-> stdin.listeners \ {"confirm"}]
    /\ toolLog' = [toolLog EXCEPT
                     !.denied = IF yes THEN @ ELSE @ \cup {CallId},
                     !.invoked = IF shouldExecute(yes) THEN @ \cup {CallId}
                                 ELSE @]
    /\ IF shouldExecute(yes)
       THEN /\ pc' = "executeMcpTool"
            /\ UNCHANGED <<messages, idx>>
       ELSE /\ messages' = Rejected(messages, CallId)
            /\ idx' = idx + 1
            /\ pc' = AfterCall(idx + 1)
    /\ UNCHANGED <<chatState, abortController, aborted, interruptHandler,
                   sessions, batch>>
    /\ UNCHANGED <<confirmationConfig, selector,
                   toolCallStream, toolOutputVisible, currentTask, loading,
                   inputHistory>>

\* `await systemDetector.executeMcpTool(...)` settles: the result message,
\* or the catch block's error message.  A name no service provides throws.
ToolFinish(ok) ==
    /\ pc = "executeMcpTool"
    /\ ok => CallKind # "unknown"
    /\ messages' = IF ok THEN Succeeded(messages, CallId)
                   ELSE Failed(messages, CallId)
    /\ idx' = idx + 1
    /\ pc' = AfterCall(idx + 1)
    /\ UNCHANGED <<chatState, abortController, aborted, interruptHandler,
                   stdin, sessions, batch>>
    /\ UNCHANGED <<toolLog, confirmationConfig, selector,
                   toolCallStream, toolOutputVisible, currentTask, loading,
                   inputHistory>>

\* ------------------------------------------------------- cancellation
\* MainPage.cancelCurrentRequest, as called by onInterrupt: the handler is
\* stopped and dropped; a live controller is aborted and dropped and the
\* chat state reset.  Nothing else is told.
cancelCurrentRequest ==
    /\ interruptHandler' = NoHandler
    /\ stdin' = StdinAfterStop(interruptHandler, stdin)
    /\ IF abortController = "live"
       THEN /\ aborted' = TRUE
            /\ abortController' = "null"
            /\ chatState' = [canSendMessage |-> TRUE, isProcessing |-> FALSE]
            /\ loading' = [loading EXCEPT !.controller = FALSE]
       ELSE UNCHANGED <<aborted, abortController, chatState, loading>>

\* Mutant: every ESC press interrupts.
EscPressMut ==
    /\ interruptHandler.exists
    /\ Hears("interrupt")
    /\ cancelCurrentRequest
    /\ UNCHANGED <<messages, pc, sessions, batch, idx>>
    /\ UNCHANGED <<toolLog, confirmationConfig, selector,
                   toolCallStream, toolOutputVisible, currentTask>>
    /\ UNCHANGED inputHistory

\* InterruptHandler.handleEscPress: the first press arms the 500 ms timer,
\* a second press while it is armed interrupts.
EscPress ==
    /\ interruptHandler.exists
    /\ Hears("interrupt")
    /\ IF interruptHandler.escPressCount = 0
       THEN /\ interruptHandler' = [interruptHandler EXCEPT
                                      !.escPressCount = 1, !.escTimer = TRUE]
            /\ UNCHANGED <<stdin, aborted, abortController, chatState,
                           loading>>
       ELSE cancelCurrentRequest
    /\ UNCHANGED <<messages, pc, sessions, batch, idx>>
    /\ UNCHANGED <<toolLog, confirmationConfig, selector,
                   toolCallStream, toolOutputVisible, currentTask>>
    /\ UNCHANGED inputHistory

\* The 500 ms timer fires: resetEscapeState.
EscTimeout ==
    /\ interruptHandler.escTimer
    /\ interruptHandler' = [interruptHandler EXCEPT
                              !.escPressCount = 0, !.escTimer = FALSE]
    /\ UNCHANGED <<messages, chatState, abortController, aborted, stdin, pc,
                   sessions, batch, idx>>
    /\ UNCHANGED <<toolLog, confirmationConfig, selector,
                   toolCallStream, toolOutputVisible, currentTask, loading,
                   inputHistory>>

\* ------------------------------------------------------- specification
SessionStep ==
    \E k \in DOMAIN sessions :
        \/ SessSend(k)
        \/ SessChunk(k)
        \/ SessFail(k)
        \/ SessCompleteContent(k)
        \/ \E b \in Batches : SessCompleteToolCalls(k, b)

Next ==
    \/ \E valid \in BOOLEAN : SubmitUserTurn(valid)
    \/ \E cmd \in Commands : HandleCommand(cmd)
    \/ BuildChatMessages
    \/ SessionStep
    \/ StreamReturned
    \/ ToolBegin
    \/ \E yes \in BOOLEAN : ConfirmKey(yes)
    \/ \E ok \in BOOLEAN : ToolFinish(ok)
    \/ EscPress
    \/ EscTimeout

Spec == Init /\ [][Next]_vars

\* The streaming service answers, tools settle, and a user who can answer
\* a confirmation prompt does; nobody is obliged to press ESC or to submit.
Fairness ==
    /\ WF_vars(BuildChatMessages)
    /\ WF_vars(SessionStep)
    /\ WF_vars(StreamReturned)
    /\ WF_vars(ToolBegin)
    /\ WF_vars(\E yes \in BOOLEAN : ConfirmKey(yes))
    /\ WF_vars(\E ok \in BOOLEAN : ToolFinish(ok))

LiveSpec == Init /\ [][Next]_vars /\ Fairness

\* The dispatch of one batch on its own: the loop has just taken a
\* tool_calls result of the first exchange of a turn.
DispatchBatches == UNION {[1..n -> CallKinds] : n \in 1..MaxDispatch}

DispatchInit ==
    /\ \E b \in DispatchBatches :
         /\ messages = <<UserMsg, AiMsg(Ids(b))>>
         /\ batch = b
    /\ chatState = [canSendMessage |-> FALSE, isProcessing |-> TRUE]
    /\ abortController = "live"
    /\ aborted = FALSE
    /\ interruptHandler = StartHandler
    /\ stdin = [flowing |-> TRUE, listeners |-> {"interrupt"}]
    /\ pc = "handleToolCall"
    /\ sessions = <<>>
    /\ idx = 1
    /\ toolLog = NoLog
    /\ confirmationConfig = {"confirm"}
    /\ toolCallStream = NoStream
    /\ toolOutputVisible = FALSE
    /\ currentTask = FALSE
    /\ loading = NoLoading
    /\ inputHistory = NoHistory
    /\ selector = NoSelector

DispatchNext ==
    \/ ToolBegin
    \/ \E yes \in BOOLEAN : ConfirmKey(yes)
    \/ \E ok \in BOOLEAN : ToolFinish(ok)
    \/ EscPress
    \/ EscTimeout

DispatchSpec == DispatchInit /\ [][DispatchNext]_vars

\* ------------------------------------------ the permission selector
\* ToolPermissionSelector.getPermissionOptions (0-based in the code)
getPermissionOptions ==
    <<[id |-> "approve", approved |-> TRUE, createPolicy |-> FALSE,
       stopStream |-> FALSE],
      [id |-> "approve_policy", approved |-> TRUE, createPolicy |-> TRUE,
       stopStream |-> FALSE],
      [id |-> "deny_stop", approved |-> FALSE, createPolicy |-> FALSE,
       stopStream |-> TRUE]>>

ToolNames == {"plain", "confirm", "unknown"}

SelectorKeys == {"up", "down", "enter", "tab", "esc", "y", "n", "ctrl+c"}

\* onResponse(requestId, approved, createPolicy, stopStream) after cleanup
Respond(sel, approved, createPolicy, stopStream) ==
    [sel EXCEPT !.responded = TRUE, !.approved = approved,
                !.createPolicy = createPolicy, !.stopStream = stopStream]

\* handleKey of ToolPermissionSelector.waitForInput.  The selector hands
\* the decision to the onResponse callback of whoever showed it and writes
\* nothing itself; its cleanup leaves raw mode and pauses stdin.
handleKey(key) ==
    /\ selector.toolName # "none"
    /\ Hears("selector")
    /\ ~selector.responded
    /\ LET last == Len(getPermissionOptions) - 1
           selected == getPermissionOptions[selector.selectedIndex + 1]
       IN  selector' =
             CASE key = "up" ->
                    [selector EXCEPT !.selectedIndex =
                        IF @ - 1 < 0 THEN 0 ELSE @ - 1]
               [] key = "down" ->
                    [selector EXCEPT !.selectedIndex =
                        IF @ + 1 > last THEN last ELSE @ + 1]
               [] key = "enter" ->
                    Respond(selector, selected.approved,
                            selected.createPolicy, selected.stopStream)
               [] key \in {"tab", "y"} ->
                    Respond(selector, TRUE, FALSE, FALSE)
               [] OTHER ->
                    Respond(selector, FALSE, FALSE, TRUE)
    /\ stdin' = IF key \in {"up", "down"} THEN stdin
                ELSE [stdin EXCEPT !.flowing = FALSE]
    /\ UNCHANGED <<messages, chatState, abortController, aborted,
                   interruptHandler, pc, sessions, batch, idx, toolLog,
                   confirmationConfig, toolCallStream, toolOutputVisible,
                   currentTask, loading,
                   inputHistory>>

\* show(): a selector is on screen for one tool, over any stored
\* confirmation configuration.
SelectorInit ==
    /\ messages = <<>>
    /\ chatState = [canSendMessage |-> TRUE, isProcessing |-> FALSE]
    /\ abortController = "null"
    /\ aborted = FALSE
    /\ interruptHandler = NoHandler
    /\ stdin = [flowing |-> TRUE, listeners |-> {"selector"}]
    /\ pc = "getUserInput"
    /\ sessions = <<>>
    /\ batch = <<>>
    /\ idx = 1
    /\ toolLog = NoLog
    /\ confirmationConfig \in SUBSET ToolNames
    /\ toolCallStream = NoStream
    /\ toolOutputVisible = FALSE
    /\ currentTask = FALSE
    /\ loading = NoLoading
    /\ inputHistory = NoHistory
    /\ \E t \in ToolNames : selector = [NoSelector EXCEPT !.toolName = t]

SelectorNext == \E key \in SelectorKeys : handleKey(key)

SelectorSpec == SelectorInit /\ [][SelectorNext]_vars

\* ------------------------------------------- the tool-output toggle
\* The keyListener of bindToolOutputToggle: Ctrl+O flips the flag.
CtrlO ==
    /\ Hears("toggle")
    /\ toolOutputVisible' = ~toolOutputVisible
    /\ currentTask' = currentTask
    /\ loading' = loading
    /\ UNCHANGED <<messages, chatState, abortController, aborted,
                   interruptHandler, stdin, pc, sessions, batch, idx, toolLog,
                   confirmationConfig, selector, toolCallStream>>
    /\ UNCHANGED inputHistory

\* The first getUserInput of the chat loop: raw mode, resume,
\* removeAllListeners('data'), then its own onKeyPress.
StartChatLoop ==
    /\ pc = "constructed"
    /\ pc' = "getUserInput"
    /\ stdin' = [flowing |-> TRUE, listeners |-> {"input"}]
    /\ UNCHANGED <<messages, chatState, abortController, aborted,
                   interruptHandler, sessions, batch, idx, toolLog,
                   confirmationConfig, selector, toolCallStream,
                   toolOutputVisible, currentTask, loading,
                   inputHistory>>

\* new MessageHandler(...): the constructor has bound the toggle listener
\* to stdin, and the chat loop has not yet asked for input.
ToggleInit ==
    /\ messages = <<>>
    /\ chatState = [canSendMessage |-> TRUE, isProcessing |-> FALSE]
    /\ abortController = "null"
    /\ aborted = FALSE
    /\ interruptHandler = NoHandler
    /\ stdin = [flowing |-> TRUE, listeners |-> {"toggle"}]
    /\ pc = "constructed"
    /\ sessions = <<>>
    /\ batch = <<>>
    /\ idx = 1
    /\ toolLog = NoLog
    /\ confirmationConfig = {"confirm"}
    /\ selector = NoSelector
    /\ toolCallStream = NoStream
    /\ toolOutputVisible = FALSE
    /\ currentTask = FALSE
    /\ loading = NoLoading
    /\ inputHistory = NoHistory

ToggleNext ==
    \/ CtrlO
    \/ StartChatLoop
    \/ Next

ToggleSpec == ToggleInit /\ [][ToggleNext]_vars

\* ------------------------------------------------ one turn, one tool
\* The turn "list files": a first message is submitted under a valid
\* configuration; the first exchange asks for one call of a tool that needs
\* no confirmation, the tool succeeds, and the second exchange answers with
\* content.  The transport may fail and be retried, a single ESC may be
\* pressed and time out; nothing is cancelled and no exchange ends in error.
ListFilesNext ==
    \/ messages = <<>> /\ SubmitUserTurn(TRUE)
    \/ BuildChatMessages
    \/ \E k \in DOMAIN sessions :
          \/ SessSend(k)
          \/ SessChunk(k)
          \/ MayRetry(sessions[k]) /\ SessFail(k)
          \/ Len(messages) = 1 /\ SessCompleteToolCalls(k, <<"plain">>)
          \/ Len(messages) > 1 /\ SessCompleteContent(k)
    \/ StreamReturned
    \/ ToolBegin
    \/ ToolFinish(TRUE)
    \/ interruptHandler.escPressCount = 0 /\ EscPress
    \/ EscTimeout

ListFilesSpec == Init /\ [][ListFilesNext]_vars

\* ------------------------------------------- tool-call accumulation
\* The call ids a stream names and the pieces of argument text it sends.
FragmentIds == {"call_1", "call_2"}
FragmentTexts == {<<"x">>, <<"y">>}

\* Mutant: a repeated id starts its argument buffer afresh.
accumulateMut(calls, id, text) ==
    IF \E i \in DOMAIN calls : calls[i].id = id
    THEN [i \in DOMAIN calls |->
             IF calls[i].id = id
             THEN [calls[i] EXCEPT !.rawArguments = text]
             ELSE calls[i]]
    ELSE Append(calls, [id |-> id, rawArguments |-> text])

\* A fragment keyed by call id: a new id starts an accumulator, a repeated
\* id appends to its argument buffer.
accumulate(calls, id, text) ==
    IF \E i \in DOMAIN calls : calls[i].id = id
    THEN [i \in DOMAIN calls |->
             IF calls[i].id = id
             THEN [calls[i] EXCEPT !.rawArguments = @ \o text]
             ELSE calls[i]]
    ELSE Append(calls, [id |-> id, rawArguments |-> text])

\* A tool-call fragment arrives on the stream.
ToolCallFragment(id, text) ==
    /\ ~toolCallStream.complete
    /\ Len(toolCallStream.arrived) < MaxFragments
    /\ toolCallStream' =
         [toolCallStream EXCEPT
            !.arrived = Append(@, [id |-> id, text |-> text]),
            !.calls = accumulate(@, id, text)]
    /\ UNCHANGED <<messages, chatState, abortController, aborted,
                   interruptHandler, stdin, pc, sessions, batch, idx, toolLog,
                   confirmationConfig, selector,
                   toolOutputVisible, currentTask, loading,
                   inputHistory>>

\* assistant-complete fires with the assembled call records.
AssistantComplete ==
    /\ ~toolCallStream.complete
    /\ toolCallStream' = [toolCallStream EXCEPT !.complete = TRUE]
    /\ UNCHANGED <<messages, chatState, abortController, aborted,
                   interruptHandler, stdin, pc, sessions, batch, idx, toolLog,
                   confirmationConfig, selector,
                   toolOutputVisible, currentTask, loading,
                   inputHistory>>

AccumulateNext ==
    \/ \E id \in FragmentIds, text \in FragmentTexts :
          ToolCallFragment(id, text)
    \/ AssistantComplete

AccumulateSpec == Init /\ [][AccumulateNext]_vars

\* ------------------------------------------- the input history's calls
chatVars == <<messages, chatState, abortController, aborted,
              interruptHandler, stdin, pc, sessions, batch, idx, toolLog,
              confirmationConfig, selector, toolCallStream,
              toolOutputVisible, currentTask, loading>>

InputHistoryInit ==
    /\ messages = <<>>
    /\ chatState = [canSendMessage |-> TRUE, isProcessing |-> FALSE]
    /\ abortController = "null"
    /\ aborted = FALSE
    /\ interruptHandler = NoHandler
    /\ stdin = [flowing |-> TRUE, listeners |-> {"input"}]
    /\ pc = "getUserInput"
    /\ sessions = <<>>
    /\ batch = <<>>
    /\ idx = 1
    /\ toolLog = NoLog
    /\ confirmationConfig = {"confirm"}
    /\ selector = NoSelector
    /\ toolCallStream = NoStream
    /\ toolOutputVisible = FALSE
    /\ currentTask = FALSE
    /\ loading = NoLoading
    /\ \E maxSize \in 1..MaxHistorySize, stored \in JsonArrays :
         /\ \A i \in DOMAIN stored : stored[i] # "#"
         /\ inputHistory = loadFromStorage(maxSize, stored)

HistoryAdd ==
    /\ \E input \in Inputs, force \in BOOLEAN :
         inputHistory' = add(inputHistory, input, force)
    /\ UNCHANGED chatVars

HistoryPrevious ==
    /\ \E currentInput \in {"", "ls"} :
         inputHistory' = previous(inputHistory, currentInput)
    /\ UNCHANGED chatVars

HistoryNext ==
    /\ inputHistory' = next(inputHistory)
    /\ UNCHANGED chatVars

HistoryReset ==
    /\ inputHistory' = reset(inputHistory)
    /\ UNCHANGED chatVars

HistoryRemove ==
    /\ \E index \in -1..(MaxHistorySize + 1) :
         inputHistory' = remove(inputHistory, index)
    /\ UNCHANGED chatVars

HistoryClear ==
    /\ inputHistory' = clear(inputHistory)
    /\ UNCHANGED chatVars

HistoryImport ==
    /\ \E imported \in JsonArrays :
         inputHistory' = import(inputHistory, imported)
    /\ UNCHANGED chatVars

InputHistoryNext ==
    \/ HistoryAdd
    \/ HistoryPrevious
    \/ HistoryNext
    \/ HistoryReset
    \/ HistoryRemove
    \/ HistoryClear
    \/ HistoryImport

InputHistorySpec == InputHistoryInit /\ [][InputHistoryNext]_vars

\* ------------------------------------------------------------- helpers
InFlight == pc # "getUserInput"

UserCount(ms) == Cardinality({i \in DOMAIN ms : ms[i].type = "user"})

IsPermutation(s, t) ==
    /\ Len(s) = Len(t)
    /\ \E p \in [DOMAIN s -> DOMAIN s] :
        /\ \A a, b \in DOMAIN s : p[a] = p[b] => a = b
        /\ \A a \in DOMAIN s : s[a] = t[p[a]]

\* The tool messages directly after position j.
GroupLen(ms, j) ==
    Cardinality({k \in 1..(Len(ms) - j) :
                    \A m \in 1..k : ms[j + m].type = "tool"})

\* Every assistant message with tool calls is followed by exactly the
\* tool messages of its ids, and every tool message belongs to such a group.
WellPaired(ms) ==
    /\ \A j \in DOMAIN ms :
         (ms[j].type = "ai" /\ ms[j].calls # <<>>) =>
            /\ GroupLen(ms, j) = Len(ms[j].calls)
            /\ IsPermutation(ms[j].calls,
                             [k \in 1..Len(ms[j].calls) |-> ms[j + k].tcid])
    /\ \A j \in DOMAIN ms :
         ms[j].type = "tool" =>
            \E a \in 1..(j - 1) :
                /\ ms[a].type = "ai"
                /\ j - a <= Len(ms[a].calls)
                /\ \A m \in (a + 1)..j : ms[m].type = "tool"

Cur == sessions[Len(sessions)]

\* ------------------------------------------------------------- claims

\* C1: wherever a user or assistant message has been appended, the
\* messages before it are well paired: each earlier assistant message with
\* tool calls is directly followed by tool messages whose toolCallIds are a
\* permutation of its ids, and no tool message stands anywhere else.
C1_PairingAtAppend ==
    \A i \in DOMAIN messages :
        messages[i].type \in {"user", "ai"} =>
            WellPaired(SubSeq(messages, 1, i - 1))

\* A two-call group, one call denied, closed by the next assistant message.
C1_Witness ==
    \E i \in DOMAIN messages :
        /\ i + 3 <= Len(messages)
        /\ messages[i].type = "ai" /\ Len(messages[i].calls) = 2
        /\ \E k \in 1..2 : messages[i + k].kind = "rejected"
        /\ messages[i + 3].type = "ai"

\* C2: the k-th tool message after an assistant message carries the id of
\* the k-th call of that message, whatever happened between the start and
\* the end of each call.
C2_ResultOrder ==
    \A j \in DOMAIN messages :
        \A k \in 1..Len(messages[j].calls) :
            (k <= GroupLen(messages, j)) =>
                messages[j + k].tcid = messages[j].calls[k]

\* A first call that waited for a confirmation and an invocation, and a
\* second one that failed at once: the results stand in call order.
C2_Witness ==
    \E j \in DOMAIN messages :
        /\ j + 2 <= Len(messages)
        /\ messages[j].calls = <<1, 2>>
        /\ messages[j + 1] = ToolMsg(1, "result")
        /\ messages[j + 2] = ToolMsg(2, "error")

\* C3: when the request is cancelled while the loop awaits streamChat, the
\* exchange that is active holds the aborted signal.
C3_CancelReachesSession ==
    [][(~aborted /\ aborted' /\ pc = "streamChat" /\ sessions # <<>>)
          => (sessions'[Len(sessions')].signal = "turn")]_vars

\* C4: once the request is cancelled, an exchange that has delivered N
\* chunks delivers no further chunk, is not retried, and can only move to
\* Cancelled.
C4_NoChunkAfterCancel ==
    [][\A k \in DOMAIN sessions :
          (aborted /\ sessions[k].state = "Streaming" /\ k \in DOMAIN sessions')
             => /\ sessions'[k].chunks = sessions[k].chunks
                /\ sessions'[k].retries = sessions[k].retries
                /\ sessions'[k].state \in {"Streaming", "Cancelled"}]_vars

\* C5: once the turn is cancelled, no further exchange is started and no
\* tool call is invoked that had not started.
C5_LoopStopsAfterCancel ==
    [][aborted =>
          /\ Len(sessions') <= Len(sessions)
          /\ ~(pc # "executeMcpTool" /\ pc' = "executeMcpTool")]_vars

\* C6: after a cancel during tool dispatch, a call of the batch that has
\* not started is not invoked (nor confirmed): it gets a cancelled
\* tool-result.
C6_CancelledResults ==
    [][(aborted /\ pc = "handleToolCall") =>
          /\ pc' \notin {"askUserConfirmation", "executeMcpTool"}
          /\ (Len(messages') > Len(messages) =>
                messages'[Len(messages')].kind = "cancelled")]_vars

\* C7: while a turn is in flight no user message is appended (no
\* submission is taken and no second processAIRequest begins).
C7_NoSubmitInFlight ==
    [][InFlight => UserCount(messages') = UserCount(messages)]_vars

\* A turn still in flight after a cancel has reset the chat state.
C7_Witness == InFlight /\ chatState.canSendMessage /\ aborted

\* C8: at most one exchange is short of a terminal state.
C8_OneActiveSession ==
    Cardinality({k \in DOMAIN sessions : sessions[k].state \notin Terminal}) <= 1

\* A second exchange of one turn is streaming, after a tool round.
C8_Witness ==
    /\ sessions # <<>>
    /\ Cur.state = "Streaming"
    /\ \E i \in DOMAIN messages : messages[i].type = "tool"

\* C9: an exchange only moves forward through Idle, Sending, Streaming to
\* one terminal state (from Sending directly when it fails or completes
\* before a content chunk), and after that it changes no more and emits no
\* event.
C9_SessionLifecycle ==
    [][\A k \in DOMAIN sessions \cap DOMAIN sessions' :
          LET s == sessions[k]
              t == sessions'[k]
          IN  \/ s.state \notin Terminal /\ t.state = s.state
              \/ s.state = "Idle" /\ t.state = "Sending"
              \/ s.state = "Sending" /\ t.state = "Streaming"
              \/ s.state \in {"Sending", "Streaming"} /\ t.state \in Terminal
              \/ s.state \in Terminal /\ t = s]_vars

\* An exchange has ended in error after a delivered chunk and its result
\* has not yet been taken by the loop.
C9_Witness ==
    /\ sessions # <<>>
    /\ Cur.state = "Errored"
    /\ Cur.chunks > 0

\* C10: every turn in flight eventually returns to the input prompt.
C10_TurnTerminates == InFlight ~> ~InFlight

\* A tool message that reports a failure: bad arguments, a failed or
\* unknown tool, or a rejection.
IsFailure(m) == m.type = "tool" /\ m.kind \in {"error", "rejected"}

\* This step appends the tool message of a failed call.
FailureAppended ==
    /\ Len(messages') = Len(messages) + 1
    /\ IsFailure(messages'[Len(messages')])

\* The request req is the tail of the conversation ms and reaches back to
\* position i.
Covers(req, ms, i) ==
    /\ Len(req) <= Len(ms)
    /\ req = From(ms, Len(ms) - Len(req) + 1)
    /\ Len(ms) - Len(req) < i

\* The failure results of the turn in flight.
TurnFailures(ms) ==
    {i \in DOMAIN ms : i > TurnStart(ms, Len(ms)) /\ IsFailure(ms[i])}

ExchangeStarts == Len(sessions') > Len(sessions)

BatchDone == pc = "buildChatMessages" /\ batch # <<>>

\* C12: once a batch has been handled, the conversation ends with the
\* assistant message and exactly one tool message per call, in call order;
\* a call whose arguments did not parse was not invoked and has an error
\* result, and the calls before and after it have their own results.
C12_ParseFailureContained ==
    BatchDone =>
        LET n == Len(batch)
            base == Len(messages) - n
        IN  /\ base >= 1
            /\ messages[base] = AiMsg(Ids(batch))
            /\ \A k \in 1..n :
                  /\ messages[base + k].type = "tool"
                  /\ messages[base + k].tcid = k
                  /\ batch[k] = "badargs" =>
                        /\ messages[base + k].kind = "error"
                        /\ k \notin toolLog.invoked
                  /\ (batch[k] = "plain" /\ messages[base + k].kind = "error")
                        => k \in toolLog.invoked

\* [a, b, c] with b's arguments unparsable: a-result, b-error, c-result.
C12_Witness ==
    /\ BatchDone
    /\ batch = <<"plain", "badargs", "plain">>
    /\ messages = <<UserMsg, AiMsg(<<1, 2, 3>>), ToolMsg(1, "result"),
                    ToolMsg(2, "error"), ToolMsg(3, "result")>>

Dispatching ==
    /\ batch # <<>>
    /\ pc \in {"handleToolCall", "askUserConfirmation", "executeMcpTool",
               "buildChatMessages"}

GroupBase == Len(messages) - (idx - 1)

\* C14: a call the user denied at the confirmation prompt is never handed
\* to executeMcpTool, and the tool message of that call is the rejection.
C14_DeniedNeverInvoked ==
    Dispatching =>
        \A id \in toolLog.denied :
            /\ needsConfirmation(batch[id])
            /\ id \notin toolLog.invoked
            /\ id < idx
            /\ messages[GroupBase + id] = ToolMsg(id, "rejected")

\* Of two calls that need confirmation the first was denied, the second
\* approved and run.
C14_Witness ==
    /\ BatchDone
    /\ batch = <<"confirm", "confirm">>
    /\ toolLog = [invoked |-> {2}, denied |-> {1}]
    /\ messages[Len(messages)] = ToolMsg(2, "result")

\* The tool messages of call id in the group being handled.
ResultsOf(id) ==
    {j \in (GroupBase + 1)..Len(messages) : messages[j].tcid = id}

\* C15: while a batch is handled, each call handed to executeMcpTool has
\* no tool message while it runs and exactly one, with its own id and
\* reporting a result or an error, from the moment it has returned or
\* thrown.
C15_OneResultPerInvocation ==
    Dispatching =>
        /\ GroupBase >= 1
        /\ messages[GroupBase] = AiMsg(Ids(batch))
        /\ \A id \in toolLog.invoked :
              IF pc = "executeMcpTool" /\ id = CallId
              THEN ResultsOf(id) = {}
              ELSE /\ Cardinality(ResultsOf(id)) = 1
                   /\ \A j \in ResultsOf(id) :
                         messages[j].kind \in {"result", "error"}

\* Two calls were invoked: the first threw, the second returned.
C15_Witness ==
    /\ BatchDone
    /\ batch = <<"plain", "plain">>
    /\ toolLog.invoked = {1, 2}
    /\ messages[Len(messages) - 1] = ToolMsg(1, "error")
    /\ messages[Len(messages)] = ToolMsg(2, "result")

\* C16: once the decision given for a tool is "don't ask again"
\* (createPolicy), the stored configuration no longer asks for that tool.
C16_PolicyPersisted ==
    (selector.responded /\ selector.createPolicy)
        => selector.toolName \notin confirmationConfig

\* C17: the history part of the request of every exchange does not start
\* with a tool message, each of its assistant messages with tool calls is
\* directly followed by the tool messages of all its ids, and each of its
\* tool messages stands in such a group.
C17_WindowPaired ==
    \A k \in DOMAIN sessions :
        LET w == sessions[k].request
        IN  /\ w # <<>> => w[1].type # "tool"
            /\ WellPaired(w)

\* A request that leaves out an older turn and holds a tool-call group.
C17_Witness ==
    /\ sessions # <<>>
    /\ Cur.state = "Idle"
    /\ Cur.request # <<>>
    /\ Len(Cur.request) < Len(messages)
    /\ \E j \in DOMAIN Cur.request : Cur.request[j].type = "tool"

\* The system message alone fits the configured context size.
PreambleFits(cap) == estimate(SystemPreamble) <= cap

\* What step 4 promises of a selection r made of ms under limit: it starts
\* with a user message, is not empty while ms has a user message, and when
\* the latest user turn alone exceeds the limit it is that turn, flagged.
StartsWithUserTurn(r, ms, limit) ==
    /\ UserCount(ms) > 0 => r.allowedMessages # <<>>
    /\ r.allowedMessages # <<>> => r.allowedMessages[1].type = "user"
    /\ Cost(LatestTurn(ms)) > limit =>
          /\ r.allowedMessages = LatestTurn(ms)
          /\ r.budgetExceeded
    /\ r.budgetExceeded => Cost(LatestTurn(ms)) > limit

C19_WithinLimit ==
    pc = "buildChatMessages" =>
        \A cap \in Capacities, p \in Policies :
            LET r == selectHistoryMessages(messages, cap, p)
            IN  PreambleFits(cap) =>
                    \/ r.budgetExceeded
                    \/ Cost(r.allowedMessages) <= Limit(cap)

\* s holds the most recent messages of t, in the same order.
IsRecentPartOf(s, t) ==
    /\ Len(s) <= Len(t)
    /\ s = From(t, Len(t) - Len(s) + 1)

\* C20: whenever the context is built, for two context sizes B1 < B2 the
\* selection under B2 ends with the selection under B1 and is otherwise
\* made of older messages.
C20_Monotone ==
    pc = "buildChatMessages" =>
        \A p \in Policies, b1, b2 \in Capacities :
            b1 < b2 =>
                IsRecentPartOf(selectHistoryMessages(messages, b1, p).allowedMessages,
                               selectHistoryMessages(messages, b2, p).allowedMessages)

\* The request just built was selected under a context size B2, and a
\* smaller B1 selects fewer messages, but not none.
C20_Witness ==
    /\ sessions # <<>>
    /\ Cur.state = "Idle"
    /\ \E p \in Policies, b1, b2 \in Capacities :
          LET s1 == selectHistoryMessages(messages, b1, p).allowedMessages
              s2 == selectHistoryMessages(messages, b2, p).allowedMessages
          IN  /\ b1 < b2
              /\ s1 # <<>>
              /\ Len(s1) < Len(s2)
              /\ Cur.request = Convert(s2, 0)

\* A context size under which the whole of ms fits the limit.
Ample(ms) == estimate(SystemPreamble) + 2 * Cost(ms) + 1

\* C21: once a batch has been handled, the conversation ends with its
\* group, and a context built under a size whose limit the whole history
\* fits is the whole history, so it holds the assistant message with all
\* its calls and then every tool message with its id, in order.
C21_LargeBudgetVerbatim ==
    BatchDone =>
        LET n == Len(batch)
            group == SubSeq(messages, Len(messages) - n, Len(messages))
        IN  /\ Len(messages) > n
            /\ group[1] = AiMsg(Ids(batch))
            /\ \A k \in 1..n : group[k + 1].type = "tool"
                                 /\ group[k + 1].tcid = k
            /\ \A p \in Policies, cap \in Capacities \cup {Ample(messages)} :
                  Limit(cap) >= Cost(messages) =>
                      LET w == buildChatMessages(messages, cap, p)
                      IN  /\ w = messages
                          /\ SubSeq(w, Len(w) - n, Len(w)) = group

\* The exchange after a two-call batch has been handed the whole history,
\* which ends with the group of that batch.
C21_Witness ==
    /\ sessions # <<>>
    /\ Cur.state = "Idle"
    /\ Len(batch) = 2
    /\ Cur.request = messages
    /\ Len(messages) > 3
    /\ SubSeq(messages, Len(messages) - 2, Len(messages))
          = <<AiMsg(<<1, 2>>), ToolMsg(1, "result"), ToolMsg(2, "error")>>

C23_BuildLeavesConversation ==
    [][(pc = "buildChatMessages" /\ pc' = "streamChat") =>
           messages' = messages]_vars

\* An exchange has just been started whose request is a proper part of a
\* conversation that is still whole.
C23_Witness ==
    /\ sessions # <<>>
    /\ Cur.state = "Idle"
    /\ Cur.request # <<>>
    /\ Len(Cur.request) < Len(messages)
    /\ UserCount(messages) >= 2
    /\ messages[1] = UserMsg

\* The conversation after a step is the conversation before it with
\* zero or more messages appended.
AppendOnly ==
    /\ Len(messages') >= Len(messages)
    /\ SubSeq(messages', 1, Len(messages)) = messages

\* A command that hands back a message list is being handled.
CommandReplaces ==
    /\ CanReadInput
    /\ pc' = pc
    /\ \E cmd \in Commands :
          /\ handleInput(cmd, messages).hasNewMessages
          /\ messages' = handleInput(cmd, messages).newMessages

JustBuilt == sessions # <<>> /\ pc = "streamChat" /\ Cur.state = "Idle"

\* The request req holds every message of the turn in flight that follows
\* the user's message.
HoldsTurn(req, ms) ==
    \A i \in DOMAIN ms : i > TurnStart(ms, Len(ms)) => Covers(req, ms, i)

C26_NoRetryAfterChunk ==
    [][\A k \in DOMAIN sessions \cap DOMAIN sessions' :
          sessions[k].chunks >= 1 =>
              sessions'[k].retries = sessions[k].retries]_vars

\* C27: an exchange is retried at most MaxRetries times; one that ends in
\* error before any chunk has used every retry and has emitted the error
\* and nothing else; and when the loop takes an exchange that ended in
\* error, it starts no further exchange and the turn is over.
C27_BoundedRetries ==
    [][/\ \A k \in DOMAIN sessions' :
            /\ sessions'[k].retries <= MaxRetries
            /\ (sessions'[k].state = "Errored" /\ sessions'[k].chunks = 0) =>
                  /\ sessions'[k].retries = MaxRetries
                  /\ sessions'[k].nev = 1
       /\ (pc = "streamChat" /\ sessions # <<>> /\ Cur.state = "Errored"
              /\ pc' # pc) =>
            /\ pc' = "getUserInput"
            /\ messages' = messages
            /\ Len(sessions') < Len(sessions)]_vars

\* Every attempt of an exchange has failed before a chunk arrived.
C27_Witness ==
    /\ sessions # <<>>
    /\ pc = "streamChat"
    /\ Cur.state = "Errored"
    /\ Cur.chunks = 0
    /\ Cur.retries = MaxRetries
    /\ Cur.nev = 1

\* The argument text that arrived for id, in arrival order.
RECURSIVE ArrivedFor(_, _)
ArrivedFor(arrived, id) ==
    IF arrived = <<>> THEN <<>>
    ELSE (IF Head(arrived).id = id THEN Head(arrived).text ELSE <<>>)
            \o ArrivedFor(Tail(arrived), id)

\* C28: when assistant-complete fires there is exactly one call record for
\* each id that arrived, in order of first arrival, and its arguments are
\* the fragments that arrived for its id, joined in arrival order.
C28_FragmentsConcatenated ==
    toolCallStream.complete =>
        LET calls == toolCallStream.calls
            arrived == toolCallStream.arrived
        IN  /\ \A i, j \in DOMAIN calls : calls[i].id = calls[j].id => i = j
            /\ {calls[i].id : i \in DOMAIN calls}
                  = {arrived[n].id : n \in DOMAIN arrived}
            /\ \A i \in DOMAIN calls :
                  calls[i].rawArguments = ArrivedFor(arrived, calls[i].id)

\* Two calls whose fragments arrived interleaved have been assembled.
C28_Witness ==
    /\ toolCallStream.complete
    /\ Len(toolCallStream.calls) = 2
    /\ toolCallStream.arrived =
          <<[id |-> "call_1", text |-> <<"x">>],
            [id |-> "call_2", text |-> <<"y">>],
            [id |-> "call_1", text |-> <<"y">>],
            [id |-> "call_2", text |-> <<"x">>]>>
    /\ toolCallStream.calls[1].rawArguments = <<"x", "y">>

\* The four messages of the turn "list files".
ListFilesMessages ==
    <<UserMsg, AiMsg(<<1>>), ToolMsg(1, "result"), AiMsg(<<>>)>>

\* C29: throughout the turn "list files" the conversation is a beginning
\* of user, assistant with the call, tool result, final assistant, and
\* once the turn is over it is exactly these four messages.
C29_ListFilesFourMessages ==
    /\ Len(messages) <= 4
    /\ messages = SubSeq(ListFilesMessages, 1, Len(messages))
    /\ (pc = "getUserInput" /\ messages # <<>>) =>
          messages = ListFilesMessages

\* The turn "list files" is over.
C29_Witness ==
    /\ pc = "getUserInput"
    /\ chatState.canSendMessage
    /\ sessions = <<>>
    /\ messages = ListFilesMessages

\* A message is submitted and the loop is back at its prompt in the same
\* step: processAIRequest returned at its configuration check.
ConfigInvalidTurn ==
    /\ CanReadInput
    /\ UserCount(messages') = UserCount(messages) + 1
    /\ pc' = "getUserInput"

\* C30: a turn that ends at the configuration check starts no exchange,
\* invokes no tool, appends nothing but the user's message, and leaves the
\* chat state as it was.
C30_InvalidConfigAborts ==
    [][ConfigInvalidTurn =>
          /\ chatState' = chatState
          /\ sessions' = sessions
          /\ toolLog'.invoked = {}
          /\ messages' = addMessage(messages, UserMsg)]_vars

\* After a turn that ended at the configuration check, a second message
\* has been submitted and its turn is in flight.
C30_Witness ==
    /\ messages = <<UserMsg, UserMsg>>
    /\ pc = "buildChatMessages"
    /\ ~aborted
    /\ chatState.isProcessing

C32_HandlerStoppedAtEnd ==
    (pc = "getUserInput" \/ aborted) =>
        /\ interruptHandler = NoHandler
        /\ "interrupt" \notin stdin.listeners
        /\ ~interruptHandler.escTimer
        /\ ~(interruptHandler.exists /\ Hears("interrupt"))

\* A turn with a tool round has completed and the loop waits for input.
C32_Witness ==
    /\ pc = "getUserInput"
    /\ ~aborted
    /\ Len(messages) >= 4
    /\ messages[Len(messages)] = AiMsg(<<>>)
    /\ stdin = [flowing |-> TRUE, listeners |-> {"input"}]

\* C33: while a response is in progress and stdin delivers keys, the
\* listener that toggles tool-output visibility is on stdin, so that a
\* Ctrl+O pressed then flips the flag.
C33_ToggleHeardInFlight ==
    (InFlight /\ pc # "constructed" /\ stdin.flowing) => Hears("toggle")

\* C34: as long as a request is in flight and has not been cancelled, its
\* interrupt handler is active and ESC presses reach its keyListener.
C34_HandlerHearsInFlight ==
    (InFlight /\ pc # "constructed" /\ ~aborted) =>
        /\ interruptHandler.exists
        /\ interruptHandler.isActive
        /\ Hears("interrupt")

\* The assistant messages this step appends.
NewAssistant ==
    {i \in DOMAIN messages' : i > Len(messages) /\ messages'[i].type = "ai"}

C36_NoTaskAfterReturn ==
    pc = "getUserInput" => ~currentTask

\* C37: when processAIRequest has returned, by any path, no loading
\* animation it started is still running: none held by the page's
\* controller and none left without a controller.
C37_NoLoadingAfterReturn ==
    pc = "getUserInput" => ~loading.controller /\ ~loading.leaked

\* A turn that was cancelled while its animation ran, and whose exchange
\* went on to complete, has returned to the input prompt.
C37_Witness ==
    /\ pc = "getUserInput"
    /\ aborted
    /\ loading = NoLoading
    /\ inputHistory = NoHistory
    /\ Len(messages) >= 2
    /\ messages[Len(messages)].type = "ai"

\* C38: for one start() of the interrupt handler onInterrupt is invoked at
\* most once, and never after stop() has returned: the press that invokes
\* it finds the handler active and leaves it stopped with its keyListener
\* off stdin, a stopped handler has no listener, and only the start() of
\* the next request makes a handler active again.
C38_InterruptOncePerStart ==
    [][ /\ (EscPress /\ interruptHandler.escPressCount = 1) =>
              /\ interruptHandler.isActive
              /\ ~interruptHandler'.isActive
              /\ "interrupt" \notin stdin'.listeners
        /\ "interrupt" \in stdin.listeners => interruptHandler.isActive
        /\ (~interruptHandler.isActive /\ interruptHandler'.isActive) =>
              /\ pc = "getUserInput"
              /\ pc' = "buildChatMessages"
              /\ interruptHandler'.escPressCount = 0 ]_vars

\* A double ESC has interrupted a request during its tool dispatch.
C38_Witness ==
    /\ pc = "handleToolCall"
    /\ aborted
    /\ ~interruptHandler.isActive
    /\ "interrupt" \notin stdin.listeners

\* C39: after any sequence of add, previous, next, reset, remove, clear
\* and import calls, -1 <= currentIndex < history length, and the history
\* holds at most maxHistorySize entries.
C39_IndexAndSizeInRange ==
    /\ -1 <= inputHistory.currentIndex
    /\ inputHistory.currentIndex < Len(inputHistory.history)
    /\ Len(inputHistory.history) <= inputHistory.maxHistorySize

\* A full history navigated back to its oldest entry, the typed text kept
\* aside.
C39_Witness ==
    /\ inputHistory.maxHistorySize = MaxHistorySize
    /\ Len(inputHistory.history) = MaxHistorySize
    /\ inputHistory.history[1] # inputHistory.history[2]
    /\ inputHistory.currentIndex = 0
    /\ inputHistory.temporaryInput = "ls"
====
